---------------------------- MODULE Spec2Model ----------------------------
(***************************************************************************)
(* Model of app/testsuite/net_link.py: the network diagnostic pipeline     *)
(* run_network_test and its five probes.                                   *)
(*                                                                         *)
(* Text is a sequence of atoms.  An atom is a piece of command output      *)
(* that the parsers never look inside: a whitespace character, one of the  *)
(* marker words the code compares against, a separator character, or an    *)
(* opaque word.  Python's str methods are modelled on such sequences.      *)
(* An optional value (Python None or a value) is <<>> or <<value>>.        *)
(***************************************************************************)
EXTENDS Integers, Sequences, FiniteSets, TLC

VARIABLES run, twin, probe_in, probe_out

vars == <<run, twin, probe_in, probe_out>>

None == <<>>
Some(v) == <<v>>

-----------------------------------------------------------------------------
(* Python str methods, on sequences of atoms *)

Whitespace == {" ", "\n"}

RECURSIVE lstrip(_)
lstrip(s) ==
  IF s # <<>> /\ Head(s) \in Whitespace THEN lstrip(Tail(s)) ELSE s

RECURSIVE rstrip(_)
rstrip(s) ==
  IF s # <<>> /\ s[Len(s)] \in Whitespace
  THEN rstrip(SubSeq(s, 1, Len(s) - 1))
  ELSE s

strip(s) == rstrip(lstrip(s))

RECURSIVE SplitWs(_, _, _)
SplitWs(s, cur, acc) ==
  IF s = <<>> THEN (IF cur = <<>> THEN acc ELSE Append(acc, cur))
  ELSE IF Head(s) \in Whitespace
       THEN SplitWs(Tail(s), <<>>, IF cur = <<>> THEN acc ELSE Append(acc, cur))
       ELSE SplitWs(Tail(s), Append(cur, Head(s)), acc)

\* str.split() with no argument: the maximal runs of non-whitespace
split(s) == SplitWs(s, <<>>, <<>>)

RECURSIVE SplitLines(_, _, _)
SplitLines(s, cur, acc) ==
  IF s = <<>> THEN (IF cur = <<>> THEN acc ELSE Append(acc, cur))
  ELSE IF Head(s) = "\n"
       THEN SplitLines(Tail(s), <<>>, Append(acc, cur))
       ELSE SplitLines(Tail(s), Append(cur, Head(s)), acc)

\* str.splitlines(): no trailing empty line, "" gives no line
splitlines(s) == SplitLines(s, <<>>, <<>>)

\* s.startswith(p)
startswith(s, p) == Len(s) >= Len(p) /\ SubSeq(s, 1, Len(p)) = p

\* p in s
contains(s, p) ==
  \E i \in 1..(Len(s) - Len(p) + 1) : SubSeq(s, i, i + Len(p) - 1) = p

\* index of the first occurrence of the one-atom separator, 0 if none
RECURSIVE Find(_, _, _)
Find(s, sep, i) ==
  IF i > Len(s) THEN 0
  ELSE IF s[i] = sep THEN i
  ELSE Find(s, sep, i + 1)

\* s.split(sep)[0]
split_first(s, sep) ==
  LET k == Find(s, sep, 1) IN
  IF k = 0 THEN s ELSE SubSeq(s, 1, k - 1)

\* s.split(sep, 1)
split_once(s, sep) ==
  LET k == Find(s, sep, 1) IN
  IF k = 0 THEN <<s>> ELSE <<SubSeq(s, 1, k - 1), SubSeq(s, k + 1, Len(s))>>

lower_atom(a) ==
  CASE a = "Unknown" -> "unknown"
    [] a = "Speed" -> "speed"
    [] a = "1000Mb/s" -> "1000mb/s"
    [] a = "100Mb/s" -> "100mb/s"
    [] OTHER -> a

\* s.lower()
lower(s) == [i \in 1..Len(s) |-> lower_atom(s[i])]

-----------------------------------------------------------------------------
(* The outcome of one subprocess.run(...): an OSError, or the stdout text *)

OSErrorOutcome == [exc |-> "OSError", stdout |-> <<>>]
Stdout(text) == [exc |-> "none", stdout |-> text]

\* Join tokens (each a sequence of atoms) with single spaces
RECURSIVE Join(_, _)
Join(tokens, sep) ==
  IF tokens = <<>> THEN <<>>
  ELSE IF Len(tokens) = 1 THEN tokens[1]
  ELSE tokens[1] \o sep \o Join(Tail(tokens), sep)

\* A one-atom token
Tok(a) == <<a>>

\* (faulty variant of Caught: a probe without the handler)
CatchesNothing(exc) == FALSE

\* except OSError: the exceptions a probe's handler catches
Caught(exc) == exc = "OSError"

\* an exception of subprocess.run that no handler of the probe catches
Escapes(out) == out.exc # "none" /\ ~Caught(out.exc)

-----------------------------------------------------------------------------
(* detect_default_route: parse `ip route get 8.8.8.8` *)

RouteInfoDefault ==
  [gateway |-> None, interface |-> None, ip_address |-> None, error |-> None]

\* (faulty variant of RouteToken: only the first marker of the output counts)
RouteTokenStop(tokens, i, info) ==
  IF \E j \in 1..(i - 1) : tokens[j] \in {Tok("via"), Tok("dev"), Tok("src")}
  THEN info
  ELSE IF tokens[i] = Tok("via") /\ i < Len(tokens)
       THEN [info EXCEPT !.gateway = Some(tokens[i + 1])]
       ELSE IF tokens[i] = Tok("dev") /\ i < Len(tokens)
            THEN [info EXCEPT !.interface = Some(tokens[i + 1])]
            ELSE IF tokens[i] = Tok("src") /\ i < Len(tokens)
                 THEN [info EXCEPT !.ip_address = Some(tokens[i + 1])]
                 ELSE info

\* The body of the token loop for (1-based) position i: the if/elif chain
RouteToken(tokens, i, info) ==
  IF tokens[i] = Tok("via") /\ i < Len(tokens)
  THEN [info EXCEPT !.gateway = Some(tokens[i + 1])]
  ELSE IF tokens[i] = Tok("dev") /\ i < Len(tokens)
       THEN [info EXCEPT !.interface = Some(tokens[i + 1])]
       ELSE IF tokens[i] = Tok("src") /\ i < Len(tokens)
            THEN [info EXCEPT !.ip_address = Some(tokens[i + 1])]
            ELSE info

\* for i, token in enumerate(tokens)
RECURSIVE RouteScan(_, _, _)
RouteScan(tokens, i, info) ==
  IF i > Len(tokens) THEN info
  ELSE RouteScan(tokens, i + 1, RouteToken(tokens, i, info))

\* out: the outcome of subprocess.run, an OSError being caught
detect_default_route(out) ==
  IF out.exc = "OSError"
  THEN [RouteInfoDefault EXCEPT !.error = Some("OSError")]
  ELSE IF out.stdout = <<>>
       THEN [RouteInfoDefault EXCEPT !.error = Some("no route output")]
       ELSE LET tokens == split(strip(out.stdout)) IN
            IF tokens = <<>>
            THEN [RouteInfoDefault EXCEPT !.error = Some("empty route tokens")]
            ELSE RouteScan(tokens, 1, RouteInfoDefault)

-----------------------------------------------------------------------------
(* detect_interface_state: parse `ip link show <interface>` *)

LinkInfoDefault ==
  [physical_link_up |-> FALSE, link_state_up |-> FALSE, error |-> None]

detect_interface_state(out) ==
  IF out.exc = "OSError"
  THEN [LinkInfoDefault EXCEPT !.error = Some("OSError")]
  ELSE IF out.stdout = <<>>
       THEN [LinkInfoDefault EXCEPT !.error = Some("link state not available")]
       ELSE [physical_link_up |-> contains(out.stdout, <<"LOWER_UP">>),
             link_state_up |-> contains(out.stdout, <<"state", " ", "UP">>),
             error |-> None]

-----------------------------------------------------------------------------
(* get_link_speed: parse `ethtool <interface>` *)

\* The body of the line loop for a line that starts with "Speed:"
SpeedOfLine(stripped) ==
  LET parts == split_once(stripped, ":") IN
  IF Len(parts) # 2 THEN None
  ELSE LET value == strip(parts[2]) IN
       IF value = <<>> THEN None
       ELSE IF contains(lower(value), <<"unknown">>) THEN None
       ELSE Some(value)

\* for line in lines: the first line that starts with "Speed:" decides
RECURSIVE SpeedScan(_, _)
SpeedScan(lines, i) ==
  IF i > Len(lines) THEN None
  ELSE LET stripped == lstrip(lines[i]) IN
       IF startswith(stripped, <<"Speed", ":">>)
       THEN SpeedOfLine(stripped)
       ELSE SpeedScan(lines, i + 1)

get_link_speed(out) ==
  IF out.exc = "OSError" THEN None
  ELSE SpeedScan(splitlines(out.stdout), 1)

-----------------------------------------------------------------------------
(* dns_ok: `dig +short google.com` gave a non-blank answer *)

dns_ok(out) ==
  IF out.exc = "OSError" THEN FALSE
  ELSE strip(out.stdout) # <<>>

-----------------------------------------------------------------------------
(* detect_ip_source: parse `ip -4 addr show dev <interface>` *)

IpInfoDefault ==
  [ip_present |-> FALSE, ip_address |-> None, ip_source |-> "none",
   error |-> None]

\* The info an inet line with at least two parts gives
IpOfLine(line) ==
  LET parts == split(line) IN
  [ip_present |-> TRUE,
   ip_address |-> Some(split_first(parts[2], "/")),
   ip_source |-> IF contains(line, <<"dynamic">>) THEN "dhcp" ELSE "static",
   error |-> None]

\* (faulty variant of IpScan: the last inet line with an address decides)
RECURSIVE IpScanLast(_, _)
IpScanLast(lines, i) ==
  IF i > Len(lines) THEN IpInfoDefault
  ELSE LET line == strip(lines[i])
           rest == IpScanLast(lines, i + 1) IN
       IF startswith(line, <<"inet">>) /\ Len(split(line)) >= 2
          /\ ~rest.ip_present
       THEN IpOfLine(line)
       ELSE rest

\* for line in result.splitlines(), from (1-based) line i on
RECURSIVE IpScan(_, _)
IpScan(lines, i) ==
  IF i > Len(lines) THEN IpInfoDefault
  ELSE LET line == strip(lines[i]) IN
       IF startswith(line, <<"inet">>)
       THEN IF Len(split(line)) < 2
            THEN IpScan(lines, i + 1)
            ELSE IpOfLine(line)
       ELSE IpScan(lines, i + 1)

detect_ip_source(out) ==
  IF out.exc = "OSError"
  THEN [IpInfoDefault EXCEPT !.error = Some("OSError")]
  ELSE IF out.stdout = <<>> THEN IpInfoDefault
  ELSE IpScan(splitlines(out.stdout), 1)

-----------------------------------------------------------------------------
(* run_network_test, one stage per external command.  A run is the record  *)
(* [pc, result, route_info, ip_info, calls]: pc names the command the run  *)
(* is about to invoke, calls logs the commands invoked so far.             *)

default_interface == Tok("eth0")

InitialResult ==
  [status |-> "ok", reason |-> "", interface |-> default_interface,
   physical_link_up |-> FALSE, link_state_up |-> FALSE, link_speed |-> None,
   ip_address |-> None, gateway |-> None, dns_ok |-> FALSE,
   ip_source |-> "none"]

IdleRun ==
  [pc |-> "idle", result |-> InitialResult, route_info |-> RouteInfoDefault,
   ip_info |-> IpInfoDefault, calls |-> <<>>]

\* What the command did, as the error taxonomy sees it
Kind(out) ==
  IF out.exc # "none" THEN "oserror"
  ELSE IF out.stdout = <<>> THEN "empty"
  ELSE "output"

\* One subprocess.run: the probe, its interface argument (None if it takes
\* none) and what the command did
Call(probe, interface, out) ==
  [probe |-> probe, interface |-> interface, kind |-> Kind(out)]

Fail(result, reason) == [result EXCEPT !.status = "fail", !.reason = reason]

\* result = {...defaults...}
begin_run == [IdleRun EXCEPT !.pc = "route"]

\* (faulty variant of AdoptRoute: the src address is not copied)
AdoptRouteNoIp(result, info) ==
  IF info.interface # None
  THEN [result EXCEPT !.interface = info.interface[1],
                      !.gateway = info.gateway]
  ELSE result

\* The route fields copied into the result (if has_default_route: ...)
AdoptRoute(result, info) ==
  IF info.interface # None
  THEN [result EXCEPT !.interface = info.interface[1],
                      !.gateway = info.gateway,
                      !.ip_address = info.ip_address]
  ELSE result

route_stage(r, out) ==
  LET info == detect_default_route(out) IN
  [r EXCEPT !.route_info = info,
            !.result = AdoptRoute(r.result, info),
            !.calls = Append(r.calls, Call("route", None, out)),
            !.pc = "link"]

\* (faulty variant of LinkTarget: always the default interface)
LinkTargetDefault(result) == Some(default_interface)

\* detect_interface_state(result["interface"]): the interface probed
LinkTarget(result) == Some(result.interface)

\* (faulty variant of LinkVerdict: the failed checks do not return)
LinkVerdictNoReturn(result) ==
  IF ~result.physical_link_up
  THEN [pc |-> "speed", result |-> Fail(result, "no physical link")]
  ELSE IF ~result.link_state_up
       THEN [pc |-> "speed", result |-> Fail(result, "Link down")]
       ELSE [pc |-> "speed", result |-> result]

\* The two link checks and their early returns
LinkVerdict(result) ==
  IF ~result.physical_link_up
  THEN [pc |-> "done", result |-> Fail(result, "no physical link")]
  ELSE IF ~result.link_state_up
       THEN [pc |-> "done", result |-> Fail(result, "Link down")]
       ELSE [pc |-> "speed", result |-> result]

link_stage(r, out) ==
  LET info == detect_interface_state(out)
      probed == [r.result EXCEPT
                   !.physical_link_up = info.physical_link_up,
                   !.link_state_up = info.link_state_up]
      v == LinkVerdict(probed) IN
  [r EXCEPT !.result = v.result,
            !.calls = Append(r.calls, Call("link", LinkTarget(r.result), out)),
            !.pc = v.pc]

\* (faulty variant of SpeedVerdict: an unknown speed fails the run)
SpeedVerdictRequired(result, speed) ==
  IF speed = None
  THEN [pc |-> "done", result |-> Fail([result EXCEPT !.link_speed = speed],
                                        "no link speed")]
  ELSE [pc |-> "addr", result |-> [result EXCEPT !.link_speed = speed]]

\* result["link_speed"] = get_link_speed(...): what the speed does to the run
SpeedVerdict(result, speed) ==
  [pc |-> "addr", result |-> [result EXCEPT !.link_speed = speed]]

speed_stage(r, out) ==
  LET v == SpeedVerdict(r.result, get_link_speed(out)) IN
  [r EXCEPT !.result = v.result,
            !.calls = Append(r.calls, Call("speed", Some(r.result.interface), out)),
            !.pc = v.pc]

\* (faulty variant of AddrVerdict: the failure carries no reason)
AddrVerdictSilent(result, info) ==
  IF info.ip_present
  THEN [pc |-> "dns", result |-> [result EXCEPT !.ip_address = info.ip_address]]
  ELSE [pc |-> "done", result |-> [result EXCEPT !.status = "fail"]]

\* The address check and its early return
AddrVerdict(result, info) ==
  IF info.ip_present
  THEN [pc |-> "dns", result |-> [result EXCEPT !.ip_address = info.ip_address]]
  ELSE [pc |-> "done", result |-> Fail(result, "no ip address")]

addr_stage(r, out) ==
  LET info == detect_ip_source(out)
      v == AddrVerdict([r.result EXCEPT !.ip_source = info.ip_source], info) IN
  [r EXCEPT !.ip_info = info,
            !.result = v.result,
            !.calls = Append(r.calls, Call("addr", Some(r.result.interface), out)),
            !.pc = v.pc]

\* (faulty variant of DnsVerdict: the DNS answer is not checked)
DnsVerdictAlwaysOk(result) ==
  [result EXCEPT !.status = "ok", !.reason = ""]

\* The DNS check and the final verdict
DnsVerdict(result) ==
  IF ~result.dns_ok
  THEN Fail(result, "dns failed")
  ELSE [result EXCEPT !.status = "ok", !.reason = ""]

dns_stage(r, out) ==
  [r EXCEPT !.result = DnsVerdict([r.result EXCEPT !.dns_ok = dns_ok(out)]),
            !.calls = Append(r.calls, Call("dns", None, out)),
            !.pc = "done"]

\* An exception no probe catches leaves run_network_test
raise(r, out) ==
  [r EXCEPT !.pc = "raised",
            !.calls = Append(r.calls, Call(r.pc, None, out))]

\* One stage of a run that is at that stage; any other run is left alone
Step(r, stage, out) ==
  IF r.pc # stage THEN r
  ELSE IF Escapes(out) THEN raise(r, out)
  ELSE CASE stage = "route" -> route_stage(r, out)
         [] stage = "link" -> link_stage(r, out)
         [] stage = "speed" -> speed_stage(r, out)
         [] stage = "addr" -> addr_stage(r, out)
         [] stage = "dns" -> dns_stage(r, out)

-----------------------------------------------------------------------------
(* What the five commands can do in a run *)

Sp == <<" ">>
Nl == <<"\n">>

\* One line of output: indented, tokens separated by single spaces
Line(tokens) == Sp \o Join(tokens, Sp) \o Nl

RECURSIVE Lines(_)
Lines(ls) == IF ls = <<>> THEN <<>> ELSE Line(Head(ls)) \o Lines(Tail(ls))

Failures == {OSErrorOutcome, Stdout(<<>>)}

TARGET == Tok("8.8.8.8")
GW == Tok("192.168.1.1")
SRC == Tok("192.168.1.50")

RouteSamples ==
  { <<TARGET, Tok("via"), GW, Tok("dev"), Tok("eth0"), Tok("src"), SRC>>,
    <<TARGET, Tok("dev"), Tok("wlan0"), Tok("src"), SRC>>,
    <<TARGET, Tok("via"), GW, Tok("dev"), Tok("wlan0")>>,
    <<TARGET, Tok("via"), GW, Tok("src"), SRC>>,
    <<TARGET, Tok("via"), GW, Tok("dev")>> }

RouteOutcomes ==
  Failures \cup {Stdout(Nl)} \cup {Stdout(Line(t)) : t \in RouteSamples}

LinkSamples ==
  { <<"<", "UP", ",", "LOWER_UP", ">", " ", "state", " ", "UP", "\n">>,
    <<"<", "NO-CARRIER", ",", "UP", ">", " ", "state", " ", "DOWN", "\n">>,
    <<"<", "UP", ",", "LOWER_UP", ">", " ", "state", " ", "DOWN", "\n">>,
    <<"<", "NO-CARRIER", ">", " ", "state", " ", "UP", "\n">> }

LinkOutcomes == Failures \cup {Stdout(t) : t \in LinkSamples}

SpeedSamples ==
  { <<"Settings", "\n", " ", "Speed", ":", " ", "1000Mb/s", "\n">>,
    <<"Speed", ":", " ", "Unknown", "!", "\n">>,
    <<"Speed", ":", " ", "\n">>,
    <<"Settings", "\n">>,
    <<"Speed", ":", " ", "100Mb/s", "\n", "Speed", ":", " ", "1000Mb/s", "\n">> }

SpeedOutcomes == Failures \cup {Stdout(t) : t \in SpeedSamples}

ADDR_A == <<"192.168.1.50", "/", "24">>
ADDR_B == <<"10.0.0.7">>
HEADER == <<Tok("2:"), Tok("eth0:")>>

AddrSamples ==
  { <<HEADER, <<Tok("inet"), ADDR_A, Tok("scope"), Tok("dynamic")>> >>,
    <<HEADER, <<Tok("inet"), ADDR_A, Tok("scope")>> >>,
    <<HEADER>>,
    <<HEADER, <<Tok("inet")>> >>,
    <<HEADER, <<Tok("inet")>>, <<Tok("inet"), ADDR_B, Tok("dynamic")>> >>,
    <<HEADER, <<Tok("inet"), ADDR_A>>, <<Tok("inet"), ADDR_B, Tok("dynamic")>> >> }

AddrOutcomes == Failures \cup {Stdout(Lines(t)) : t \in AddrSamples}

DnsOutcomes == Failures \cup {Stdout(Nl), Stdout(<<"142.250.1.1", "\n">>)}

-----------------------------------------------------------------------------
(* The program: run_state_machine calls run_network_test on every button   *)
(* press; each stage of the run waits for its command.                     *)

NoProbe == [exc |-> "none", stdout |-> <<>>]

Init ==
  /\ run = IdleRun
  /\ twin = IdleRun
  /\ probe_in = NoProbe
  /\ probe_out = None

\* event == "single": result = run_network_test()
Begin ==
  /\ run.pc \in {"idle", "done"}
  /\ run' = begin_run
  /\ UNCHANGED <<twin, probe_in, probe_out>>

Route ==
  /\ run.pc = "route"
  /\ \E out \in RouteOutcomes : run' = Step(run, "route", out)
  /\ UNCHANGED <<twin, probe_in, probe_out>>

Link ==
  /\ run.pc = "link"
  /\ \E out \in LinkOutcomes : run' = Step(run, "link", out)
  /\ UNCHANGED <<twin, probe_in, probe_out>>

Speed ==
  /\ run.pc = "speed"
  /\ \E out \in SpeedOutcomes : run' = Step(run, "speed", out)
  /\ UNCHANGED <<twin, probe_in, probe_out>>

Addr ==
  /\ run.pc = "addr"
  /\ \E out \in AddrOutcomes : run' = Step(run, "addr", out)
  /\ UNCHANGED <<twin, probe_in, probe_out>>

Dns ==
  /\ run.pc = "dns"
  /\ \E out \in DnsOutcomes : run' = Step(run, "dns", out)
  /\ UNCHANGED <<twin, probe_in, probe_out>>

Next == Begin \/ Route \/ Link \/ Speed \/ Addr \/ Dns

Spec == Init /\ [][Next]_vars

\* The state of the run, by the names of the code
pc == run.pc
result == run.result
route_info == run.route_info
ip_info == run.ip_info
calls == run.calls

-----------------------------------------------------------------------------
(* Two runs side by side: every command but ethtool does the same in both  *)

PairBegin ==
  /\ run.pc \in {"idle", "done"}
  /\ twin.pc \in {"idle", "done"}
  /\ run' = begin_run
  /\ twin' = begin_run
  /\ UNCHANGED <<probe_in, probe_out>>

PairRoute ==
  /\ run.pc = "route" \/ twin.pc = "route"
  /\ \E out \in RouteOutcomes :
       /\ run' = Step(run, "route", out)
       /\ twin' = Step(twin, "route", out)
  /\ UNCHANGED <<probe_in, probe_out>>

PairLink ==
  /\ run.pc = "link" \/ twin.pc = "link"
  /\ \E out \in LinkOutcomes :
       /\ run' = Step(run, "link", out)
       /\ twin' = Step(twin, "link", out)
  /\ UNCHANGED <<probe_in, probe_out>>

PairSpeed ==
  /\ run.pc = "speed" \/ twin.pc = "speed"
  /\ \E out1, out2 \in SpeedOutcomes :
       /\ run' = Step(run, "speed", out1)
       /\ twin' = Step(twin, "speed", out2)
  /\ UNCHANGED <<probe_in, probe_out>>

PairAddr ==
  /\ run.pc = "addr" \/ twin.pc = "addr"
  /\ \E out \in AddrOutcomes :
       /\ run' = Step(run, "addr", out)
       /\ twin' = Step(twin, "addr", out)
  /\ UNCHANGED <<probe_in, probe_out>>

PairDns ==
  /\ run.pc = "dns" \/ twin.pc = "dns"
  /\ \E out \in DnsOutcomes :
       /\ run' = Step(run, "dns", out)
       /\ twin' = Step(twin, "dns", out)
  /\ UNCHANGED <<probe_in, probe_out>>

PairNext ==
  PairBegin \/ PairRoute \/ PairLink \/ PairSpeed \/ PairAddr \/ PairDns

SpecPair == Init /\ [][PairNext]_vars

-----------------------------------------------------------------------------
(* detect_default_route alone, over every short token sequence *)

MaxRouteTokens == 6
MaxAddrLines == 3

Markers == {Tok("via"), Tok("dev"), Tok("src")}
RouteWords == Markers \cup {Tok("eth0"), GW, SRC}

\* `a b c\n`, or the same tokens padded: `  a   b   c `
Layouts(tokens) ==
  {Join(tokens, Sp) \o Nl, Sp \o Sp \o Join(tokens, Sp \o Sp \o Sp) \o Sp}

RouteInit ==
  /\ run = IdleRun
  /\ twin = IdleRun
  /\ \/ probe_in \in Failures
     \/ \E k \in 0..MaxRouteTokens : \E t \in [1..k -> RouteWords] :
          \E text \in Layouts(t) : probe_in = Stdout(text)
  /\ probe_out = None

CallDetectDefaultRoute ==
  /\ probe_out = None
  /\ probe_out' = Some(detect_default_route(probe_in))
  /\ UNCHANGED <<run, twin, probe_in>>

SpecRoute == RouteInit /\ [][CallDetectDefaultRoute]_vars

-----------------------------------------------------------------------------
(* detect_ip_source alone, over every short listing *)

AddrLines ==
  { <<Tok("2:"), Tok("eth0:")>>,
    <<>>,
    <<Tok("inet")>>,
    <<Tok("inet"), ADDR_A>>,
    <<Tok("inet"), ADDR_A, Tok("scope"), Tok("dynamic")>>,
    <<Tok("inet"), ADDR_B>>,
    <<Tok("inet"), ADDR_B, Tok("dynamic")>>,
    <<Tok("inet"), <<"/", "24">>, Tok("dynamic")>>,
    <<<<"inet", "6">>, ADDR_B>>,
    <<Tok("valid_lft"), Tok("dynamic")>> }


AddrInit ==
  /\ run = IdleRun
  /\ twin = IdleRun
  /\ \/ probe_in \in Failures
     \/ \E k \in 0..MaxAddrLines : \E ls \in [1..k -> AddrLines] :
          probe_in = Stdout(Lines(ls))
  /\ probe_out = None

CallDetectIpSource ==
  /\ probe_out = None
  /\ probe_out' = Some(detect_ip_source(probe_in))
  /\ UNCHANGED <<run, twin, probe_in>>

SpecAddr == AddrInit /\ [][CallDetectIpSource]_vars

-----------------------------------------------------------------------------
(* Properties of run_network_test *)

Returned == pc = "done"

Called(probe) == \E i \in 1..Len(calls) : calls[i].probe = probe

FailedCall(probe) ==
  \E i \in 1..Len(calls) :
    calls[i].probe = probe /\ calls[i].kind \in {"oserror", "empty"}

\* C1: the returned record has status ok exactly when the physical link is
\* up, the link state is up, an ip address is present and DNS answered.
C1_StatusOkIff ==
  Returned =>
    (result.status = "ok" <=>
       /\ result.physical_link_up
       /\ result.link_state_up
       /\ result.ip_address # None
       /\ result.dns_ok)

C1_Witness ==
  /\ Returned
  /\ result.status = "ok"
  /\ result.ip_address # None
  /\ result.dns_ok

\* C2: the returned record's reason is empty exactly when its status is ok,
\* whichever stage the run returned from.
C2_ReasonEmptyIffOk ==
  Returned => (result.reason = "" <=> result.status = "ok")

C2_Witness ==
  /\ Returned
  /\ result.status = "fail"
  /\ result.reason # ""
  /\ Len(calls) = 4

\* C3: a failed run's reason is one of the four fixed phrases and names the
\* first failing check in pipeline order.
C3_ReasonNamesFirstFailure ==
  (Returned /\ result.status = "fail") =>
    /\ result.reason \in
         {"no physical link", "link down", "no ip address", "dns failed"}
    /\ result.reason =
         IF ~result.physical_link_up THEN "no physical link"
         ELSE IF ~result.link_state_up THEN "link down"
         ELSE IF ~ip_info.ip_present THEN "no ip address"
         ELSE "dns failed"

\* C4 as claimed: with no physical link, link_speed, ip_address and dns_ok
\* all hold their defaults, whatever the route resolver found.
C4_DefaultsWithoutLink ==
  (Returned /\ ~result.physical_link_up) =>
    /\ result.link_speed = None
    /\ result.ip_address = None
    /\ result.dns_ok = FALSE

\* What the route stage leaves in ip_address
RouteAddress ==
  IF route_info.interface # None THEN route_info.ip_address ELSE None

\* C4 as amended: with no physical link, link_speed, dns_ok and ip_source
\* hold their defaults and ip_address holds what the route stage wrote (the
\* route's src address when the resolver found an interface, else None);
\* the fields written by stages after the first failing check keep their
\* defaults.
C4_LaterFieldsKeepDefaults ==
  /\ (Returned /\ ~result.physical_link_up) =>
       /\ result.link_speed = None
       /\ result.dns_ok = FALSE
       /\ result.ip_source = "none"
       /\ result.ip_address = RouteAddress
  /\ (Returned /\ result.physical_link_up /\ ~result.link_state_up) =>
       /\ result.link_speed = None
       /\ result.dns_ok = FALSE
       /\ result.ip_source = "none"
       /\ result.ip_address = RouteAddress
  /\ (Returned /\ result.reason = "no ip address") =>
       /\ result.dns_ok = FALSE
       /\ result.ip_address = RouteAddress

C4_Witness ==
  /\ Returned
  /\ ~result.physical_link_up
  /\ route_info.interface # None
  /\ result.ip_address # None
  /\ result.link_speed = None

\* C5: no exception leaves run_network_test: every stage whose command
\* fails goes on or returns, a failed command gives the stage's negative
\* value, and a run that returned has a verdict, with a reason when it is
\* fail.
C5_NeverRaises ==
  /\ pc # "raised"
  /\ pc \in {"idle", "done"} \/ ENABLED Next
  /\ Returned =>
       /\ result.status \in {"ok", "fail"}
       /\ result.status = "fail" => result.reason # ""
       /\ FailedCall("route") =>
            /\ route_info.interface = None
            /\ route_info.gateway = None
            /\ route_info.ip_address = None
       /\ FailedCall("link") =>
            /\ ~result.physical_link_up
            /\ ~result.link_state_up
            /\ result.status = "fail"
       /\ FailedCall("speed") => result.link_speed = None
       /\ FailedCall("addr") =>
            /\ ~ip_info.ip_present
            /\ result.ip_source = "none"
            /\ result.status = "fail"
       /\ FailedCall("dns") => (~result.dns_ok /\ result.status = "fail")

C5_Witness ==
  /\ Returned
  /\ Len(calls) = 5
  /\ calls[1].kind = "oserror"
  /\ calls[3].kind = "oserror"
  /\ calls[5].kind = "oserror"
  /\ result.status = "fail"

ProbeOrder == <<"route", "link", "speed", "addr", "dns">>

\* C6: the probes are invoked in the order route, link, speed, address, DNS,
\* each at most once; speed and address only with both link flags up, DNS
\* only if the address probe also found an address; a run that returned
\* after a failing check invoked nothing after it.
C6_ProbeOrder ==
  /\ Len(calls) <= Len(ProbeOrder)
  /\ \A i \in 1..Len(calls) : calls[i].probe = ProbeOrder[i]
  /\ (Called("speed") \/ Called("addr")) =>
       (result.physical_link_up /\ result.link_state_up)
  /\ Called("dns") =>
       /\ result.physical_link_up
       /\ result.link_state_up
       /\ ip_info.ip_present
  /\ (Returned /\ ~(result.physical_link_up /\ result.link_state_up)) =>
       Len(calls) = 2
  /\ (Returned /\ result.reason = "no ip address") => Len(calls) = 4

C6_Witness ==
  /\ Returned
  /\ Len(calls) = 5
  /\ result.status = "ok"

\* C7: when the route resolver finds no interface the run goes on with
\* eth0: the record's interface is eth0 and the link, speed and address
\* probes are invoked with it; when it finds one, that one is reported
\* and probed.
C7_DefaultInterface ==
  /\ pc # "raised"
  /\ pc \in {"link", "speed", "addr", "dns", "done"} =>
       /\ FailedCall("route") => route_info.interface = None
       /\ route_info.interface = None =>
            result.interface = default_interface
       /\ route_info.interface # None =>
            result.interface = route_info.interface[1]
       /\ \A i \in 1..Len(calls) :
            calls[i].probe \in {"link", "speed", "addr"} =>
              calls[i].interface = Some(result.interface)
  /\ Returned => result.status \in {"ok", "fail"}

C7_Witness ==
  /\ Returned
  /\ calls[1].kind = "output"
  /\ route_info.interface = None
  /\ route_info.gateway # None
  /\ result.interface = default_interface
  /\ result.status = "ok"

\* The record without link_speed
ButSpeed(r) == [r EXCEPT !.link_speed = None]

\* C8: two runs whose route, link, address and DNS commands did the same
\* and whose ethtool commands did not return records that agree on every
\* field but link_speed.
C8_SpeedAdvisory ==
  (run.pc = "done" /\ twin.pc = "done") =>
    ButSpeed(run.result) = ButSpeed(twin.result)

C8_Witness ==
  /\ run.pc = "done"
  /\ twin.pc = "done"
  /\ run.result.link_speed = None
  /\ twin.result.link_speed # None
  /\ run.calls[3].kind = "oserror"
  /\ run.result.status = "ok"

-----------------------------------------------------------------------------
(* Properties of detect_ip_source *)

\* The lines of the listing, trimmed
ListedLines ==
  LET lines == splitlines(probe_in.stdout) IN
  [i \in 1..Len(lines) |-> strip(lines[i])]

InetLines == {i \in 1..Len(ListedLines) : startswith(ListedLines[i], <<"inet">>)}

\* The inet lines that have an address token
AddressLines == {i \in InetLines : Len(split(ListedLines[i])) >= 2}

Min(S) == CHOOSE i \in S : \A j \in S : i <= j

SourceOf(line) == IF contains(line, <<"dynamic">>) THEN "dhcp" ELSE "static"

AddressOf(line) == Some(split_first(split(line)[2], "/"))

NoAddress(info) ==
  /\ ~info.ip_present
  /\ info.ip_address = None
  /\ info.ip_source = "none"

\* C9 as claimed: the first line that begins with inet decides: an address
\* is present, its source is DHCP if that line contains dynamic and STATIC
\* if not, the address is that line's second token without its /prefix,
\* and no later line matters; without an inet line there is no address.
C9_FirstInetLineDecides ==
  probe_out # None =>
    LET info == probe_out[1] IN
    IF InetLines = {} THEN NoAddress(info)
    ELSE LET line == ListedLines[Min(InetLines)] IN
         /\ info.ip_present
         /\ info.ip_source = SourceOf(line)
         /\ Len(split(line)) >= 2 => info.ip_address = AddressOf(line)

\* C9 as amended: the first line that begins with inet and has at least two
\* whitespace-separated tokens decides (an inet line with fewer is skipped):
\* an address is present, its source is DHCP if that line contains dynamic
\* and STATIC if not, the address is that line's second token without its
\* /prefix, and no later line matters; without such a line, or when the
\* command fails or prints nothing, there is no address and the source is
\* NONE.
C9_FirstAddressLineDecides ==
  probe_out # None =>
    LET info == probe_out[1] IN
    IF AddressLines = {} THEN NoAddress(info)
    ELSE LET line == ListedLines[Min(AddressLines)] IN
         /\ info.ip_present
         /\ info.ip_source = SourceOf(line)
         /\ info.ip_address = AddressOf(line)

C9_Witness ==
  /\ probe_out # None
  /\ Cardinality(AddressLines) >= 2
  /\ Min(InetLines) < Min(AddressLines)
  /\ probe_out[1].ip_source = "static"
  /\ probe_out[1].ip_address = Some(ADDR_B)
  /\ SourceOf(ListedLines[Len(ListedLines)]) = "dhcp"

-----------------------------------------------------------------------------
(* Properties of detect_default_route *)

RouteTokens == split(strip(probe_in.stdout))

MarkerAt(t, m) == {i \in 1..Len(t) : t[i] = m}

\* Each marker occurs at most once and is followed by a value token
WellFormed(t) ==
  \A m \in Markers :
    /\ Cardinality(MarkerAt(t, m)) <= 1
    /\ \A i \in MarkerAt(t, m) : i < Len(t) /\ t[i + 1] \notin Markers

FieldOf(info, m) ==
  CASE m = Tok("via") -> info.gateway
    [] m = Tok("dev") -> info.interface
    [] m = Tok("src") -> info.ip_address

ValueAfter(t, m) ==
  IF MarkerAt(t, m) = {} THEN None ELSE Some(t[Min(MarkerAt(t, m)) + 1])

\* t with the marker/value pairs at i and i + 2 exchanged
SwapPairs(t, i) ==
  [k \in 1..Len(t) |->
     IF k \in {i, i + 1} THEN t[k + 2]
     ELSE IF k \in {i + 2, i + 3} THEN t[k - 2]
     ELSE t[k]]

\* C10: for output whose markers via, dev, src each occur at most once and
\* are followed by a value, gateway, interface and ip_address are the tokens
\* after via, dev and src, whatever the order of the marker/value pairs and
\* whatever other tokens surround them; a marker that is absent or is only
\* the last token leaves its field unset, and no error is set.
C10_RouteMarkerDriven ==
  (probe_out # None /\ probe_in.exc = "none" /\ RouteTokens # <<>>) =>
    LET t == RouteTokens
        info == probe_out[1] IN
    /\ info.error = None
    /\ \A m \in Markers :
         (\A i \in MarkerAt(t, m) : i = Len(t)) => FieldOf(info, m) = None
    /\ WellFormed(t) =>
         /\ \A m \in Markers : FieldOf(info, m) = ValueAfter(t, m)
         /\ \A i \in 1..(Len(t) - 3) :
              (t[i] \in Markers /\ t[i + 2] \in Markers) =>
                RouteScan(SwapPairs(t, i), 1, RouteInfoDefault) = info

C10_Witness ==
  /\ probe_out # None
  /\ RouteTokens = <<Tok("src"), SRC, Tok("dev"), Tok("eth0"), Tok("via"), GW>>
  /\ probe_out[1].gateway = Some(GW)
  /\ probe_out[1].interface = Some(Tok("eth0"))
  /\ probe_out[1].ip_address = Some(SRC)

=============================================================================
